---- MODULE Spec2Model ----
(***************************************************************************)
(* Audio-Processing-Lab: the DSP effects of backend/services/              *)
(* audio_effects.py as operators over sample buffers, and a state machine  *)
(* that draws a buffer and applies one effect call to it.                  *)
(*                                                                         *)
(* A buffer is a record [ch, den]: ch is the sequence of channels (one     *)
(* for a mono array of shape (N,), two for a stereo array of shape (2,N)), *)
(* each channel a sequence of integer numerators; den is the common        *)
(* positive denominator, so sample i of channel c is ch[c][i] / den.       *)
(* Arithmetic is exact rational arithmetic: float rounding of the products *)
(* is not modelled, the truncation done by int() is.                        *)
(* Times are ticks of 1/TimeDen second.  A call returns Ok(buffer) or      *)
(* Raise(exception, message).                                              *)
(***************************************************************************)
EXTENDS Integers, Sequences, FiniteSets, TLC

VARIABLES signal, sr, op, args, locals, output, out,
          files, now, pc, calls, responses, issued, cleaner

\* the state of the service around the effects: the temporary directories,
\* the clock, the /process request in flight and the cleanup task
service == <<files, now, pc, calls, responses, issued, cleaner>>

vars == <<signal, sr, op, args, locals, output, out, service>>

\* ------------------------------------------------------------------ bounds
MaxLen == 2
MaxTick == 6
TimeDen == 25
\* reverb is applied only when its delay is at most this many samples
MaxDelaySamples == 8

SampleValues == {-2, 0, 1}
SampleRates == {10, 25, 1000}
TargetPeaks == {<<19, 20>>, <<1, 1>>, <<1, 2>>}
Decays == {<<1, 10>>, <<1, 2>>, <<9, 10>>}
DelaysMs == {50, 70, 100, 300}
WidenDelaysMs == {5, 10, 20}
\* gain_diff_db in tenths of a dB
GainDiffsDb == {0, 15, 30, 60}
\* pan_speed_hz in hundredths of a Hz, intensity and crossfeed in tenths
PanSpeedsHz == {15, 100}
Intensities == {8, 10}
Crossfeeds == {0, 3, 6}
Semitones == {-12, 0, 12}
\* the sample values an external transform (librosa, scipy) may return
LibraryValues == {0, 1}
\* band_gains_db dicts, gains in thousandths of a dB
EqGainSets ==
    { <<>>,
      [b \in {"sub_bass", "bass", "low_mid", "mid", "high_mid", "presence",
              "brilliance"} |-> 0],
      [b \in {"bass"} |-> 5],
      [b \in {"sub_bass"} |-> -10],
      [b \in {"bass"} |-> 10000],
      [b \in {"mid", "presence"} |-> IF b = "mid" THEN 6000 ELSE -4000],
      [b \in {"sub_bass", "bass", "low_mid", "brilliance"} |->
          CASE b = "sub_bass" -> -12000 [] b = "bass" -> 6000
            [] b = "low_mid" -> 3000 [] b = "brilliance" -> 12000] }

\* an optional argument: None, or Some(v)
None == <<>>
Some(v) == <<v>>
NoBuffer == [ch |-> <<>>, den |-> 1]
NoResult == [kind |-> "none"]
NoLocals == [none |-> TRUE]

\* ----------------------------------------------------------------- helpers
Abs(x) == IF x < 0 THEN -x ELSE x

Min(a, b) == IF a <= b THEN a ELSE b

Pow(b, e) == IF e = 0 THEN 1
             ELSE IF e = 1 THEN b
             ELSE IF e = 2 THEN b * b
             ELSE IF e = 3 THEN b * b * b
             ELSE IF e = 4 THEN b * b * b * b
             ELSE b * b * b * b * b

Ok(b) == [kind |-> "ok", buf |-> b]

Raise(exc, msg) == [kind |-> "raise", exc |-> exc, msg |-> msg]

Buffer(chs, d) == [ch |-> chs, den |-> d]

ndim(b) == IF Len(b.ch) = 1 THEN 1 ELSE 2

NumChannels(b) == Len(b.ch)

NumSamples(b) == Len(b.ch[1])

\* numpy basic slicing s[a:b] with 0 <= a: indices a .. min(b, len)-1
Slice(s, a, b) == SubSeq(s, a + 1, Min(b, Len(s)))

\* s[::-1]
Reversed(s) == [i \in 1..Len(s) |-> s[Len(s) + 1 - i]]

\* the arrays of n samples a library call may return: one of LibraryValues
\* at every sample, or the two values alternating
LibraryArrays(n) ==
    { [i \in 1..n |-> v] : v \in LibraryValues } \cup { [i \in 1..n |-> i % 2] }

\* ------------------------------------------------------------ reverse_audio
reverse_audio_drop(b, rate) ==
    Ok(Buffer([c \in 1..Len(b.ch) |->
                 Reversed(Slice(b.ch[c], 0, Len(b.ch[c]) - 1))], b.den))

reverse_audio_axis0(b, rate) ==
    IF ndim(b) = 1 THEN Ok(Buffer(<<Reversed(b.ch[1])>>, b.den))
    ELSE Ok(Buffer(Reversed(b.ch), b.den))

reverse_audio(b, rate) ==
    IF ndim(b) = 1
    THEN Ok(Buffer(<<Reversed(b.ch[1])>>, b.den))
    ELSE Ok(Buffer([c \in 1..Len(b.ch) |-> Reversed(b.ch[c])], b.den))

\* ----------------------------------------------------------- peak_normalize
AllSamples(b) == UNION { { b.ch[c][i] : i \in 1..Len(b.ch[c]) } : c \in 1..Len(b.ch) }

\* np.max(np.abs(signal)), as a numerator over b.den
PeakOf(b) == CHOOSE m \in { Abs(x) : x \in AllSamples(b) } :
                 \A x \in AllSamples(b) : Abs(x) <= m

Scaled(b, k, d) ==
    Buffer([c \in 1..Len(b.ch) |-> [i \in 1..Len(b.ch[c]) |-> b.ch[c][i] * k]], d)

peak_normalize_first_channel(b, target_peak) ==
    IF AllSamples(b) = {}
    THEN Raise("ValueError", "zero-size array to reduction operation maximum")
    ELSE LET peak == PeakOf(Buffer(<<b.ch[1]>>, b.den))
         IN IF peak = 0 THEN Ok(b)
            ELSE Ok(Scaled(b, target_peak[1], target_peak[2] * peak))

\* signal * (target_peak / peak): sample s/den becomes
\* (s/den) * (tp1/tp2) / (peak/den) = s*tp1 / (tp2*peak)
peak_normalize(b, target_peak) ==
    IF AllSamples(b) = {}
    THEN Raise("ValueError", "zero-size array to reduction operation maximum")
    ELSE LET peak == PeakOf(b)
         IN IF peak = 0 THEN Ok(b)
            ELSE Ok(Scaled(b, target_peak[1], target_peak[2] * peak))

\* --------------------------------------------------------------- trim_audio
\* a < b for rationals <<num, den>> with den > 0
RatLess(a, b) == a[1] * b[2] < b[1] * a[2]

\* Python int() of the rational num/den: truncation toward zero
PyInt(num, den) == IF num >= 0 THEN num \div den ELSE -((-num) \div den)

MsgStartNegative == "start_time must be >= 0"
MsgEndExceeds == "end_time exceeds duration"
MsgStartNotLess == "start_time must be less than end_time"

TrimIndexNoRate(t, rate) == PyInt(t[1], t[2])

TrimIndexRounded(t, rate) ==
    IF 2 * ((t[1] * rate) % t[2]) >= t[2]
    THEN (t[1] * rate) \div t[2] + 1
    ELSE (t[1] * rate) \div t[2]

\* int(t * sr) for the time t = <<num, den>> seconds
TrimIndex(t, rate) == PyInt(t[1] * rate, t[2])

TrimRangeErrorLax(b, rate, start, end) ==
    IF start[1] < 0 THEN Raise("ValueError", MsgStartNegative)
    ELSE IF RatLess(<<Len(b.ch[1]), rate>>, end) THEN Raise("ValueError", MsgEndExceeds)
    ELSE IF RatLess(end, start) THEN Raise("ValueError", MsgStartNotLess)
    ELSE NoResult

TrimRangeErrorReordered(b, rate, start, end) ==
    IF start[1] < 0 THEN Raise("ValueError", MsgStartNegative)
    ELSE IF ~RatLess(start, end) THEN Raise("ValueError", MsgStartNotLess)
    ELSE IF RatLess(<<Len(b.ch[1]), rate>>, end) THEN Raise("ValueError", MsgEndExceeds)
    ELSE NoResult

\* the validation block: the error it raises, NoResult when it passes
TrimRangeError(b, rate, start, end) ==
    IF start[1] < 0 THEN Raise("ValueError", MsgStartNegative)
    ELSE IF RatLess(<<Len(b.ch[1]), rate>>, end) THEN Raise("ValueError", MsgEndExceeds)
    ELSE IF ~RatLess(start, end) THEN Raise("ValueError", MsgStartNotLess)
    ELSE NoResult

\* start_time is a tick count, end_time None or Some(tick count)
trim_audio(b, rate, start_time, end_time) ==
    LET total_samples == IF ndim(b) = 1 THEN Len(b.ch[1]) ELSE Len(b.ch[1])
        duration == <<total_samples, rate>>
        start == <<start_time, TimeDen>>
        end == IF end_time = None THEN duration ELSE <<end_time[1], TimeDen>>
        err == TrimRangeError(b, rate, start, end)
    IN IF err.kind = "raise" THEN err
       ELSE LET start_sample == TrimIndex(start, rate)
                end_sample == TrimIndex(end, rate)
            IN Ok(Buffer([c \in 1..Len(b.ch) |->
                            Slice(b.ch[c], start_sample, end_sample)], b.den))

\* ------------------------------------------------------------------- reverb
num_reflections == 5

default_target_peak == <<19, 20>>

DelaySamplesRounded(rate, delay_ms) ==
    IF 2 * ((rate * delay_ms) % 1000) >= 1000
    THEN (rate * delay_ms) \div 1000 + 1
    ELSE (rate * delay_ms) \div 1000

\* int(sr * delay_ms / 1000)
DelaySamples(rate, delay_ms) == PyInt(rate * delay_ms, 1000)

AddReflectionOverwrite(output_ch, sig, offset, end, gain) ==
    [n \in 1..Len(output_ch) |->
        IF n > offset /\ n <= end THEN sig[n - offset] * gain ELSE output_ch[n]]

\* output[offset:end] += signal[: end - offset] * gain
AddReflection(output_ch, sig, offset, end, gain) ==
    [n \in 1..Len(output_ch) |->
        IF n > offset /\ n <= end /\ n - offset <= Min(Len(sig), end - offset)
        THEN output_ch[n] + sig[n - offset] * gain
        ELSE output_ch[n]]

\* the loop over i = 1..num_reflections on one channel; output_ch holds
\* numerators over den * decay[2]^num_reflections, so the gain decay^i is the
\* numerator decay[1]^i * decay[2]^(num_reflections - i)
RECURSIVE ReverbLoop(_, _, _, _, _)
ReverbLoop(output_ch, sig, i, delay_samples, decay) ==
    IF i > num_reflections THEN output_ch
    ELSE LET out_length == Len(output_ch)
             offset == delay_samples * i
             gain == Pow(decay[1], i) * Pow(decay[2], num_reflections - i)
             end0 == offset + Len(sig)
             end == IF end0 > out_length THEN out_length ELSE end0
         IN ReverbLoop(AddReflection(output_ch, sig, offset, end, gain),
                       sig, i + 1, delay_samples, decay)

\* output = zeros(out_length); output[:len(signal)] = signal; then the loop
ReverbChannel(sig, delay_samples, decay) ==
    LET out_length == Len(sig) + delay_samples * num_reflections
        output_ch == [n \in 1..out_length |->
                        IF n <= Len(sig) THEN sig[n] * Pow(decay[2], num_reflections)
                        ELSE 0]
    IN ReverbLoop(output_ch, sig, 1, delay_samples, decay)

\* the local `output` of reverb when it reaches its return statement
reverb_output(b, rate, decay, delay_ms) ==
    LET delay_samples == DelaySamples(rate, delay_ms)
        den == b.den * Pow(decay[2], num_reflections)
    IN IF ndim(b) = 1
       THEN Buffer(<<ReverbChannel(b.ch[1], delay_samples, decay)>>, den)
       ELSE Buffer([c \in 1..Len(b.ch) |->
                      ReverbChannel(b.ch[c], delay_samples, decay)], den)

reverb(b, rate, decay, delay_ms) ==
    peak_normalize(reverb_output(b, rate, decay, delay_ms), default_target_peak)

\* ------------------------------------------------------------- stereo_widen
\* signal = np.stack([signal, signal.copy()]) when mono: the two channels
EnsureStereo(b) == IF ndim(b) = 1 THEN <<b.ch[1], b.ch[1]>> ELSE b.ch

\* int(sr * delay_ms / 1000)
WidenDelaySamples(rate, delay_ms) == PyInt(rate * delay_ms, 1000)

\* 10 ** (-gain_diff_db / 20) in thousandths, rounded to nearest, for
\* gain_diff_db in tenths of a dB: 1, 0.841, 0.708, 0.501
GainFactorMilli(gain_diff_db) ==
    CASE gain_diff_db = 0 -> 1000
      [] gain_diff_db = 15 -> 841
      [] gain_diff_db = 30 -> 708
      [] gain_diff_db = 60 -> 501

WidenSampleSameSide(l, r) ==
    <<10 * (l + r) + 13 * (l - r), 10 * (l + r) + 13 * (l - r)>>

\* mid = (l + r) / 2; side = (l - r) / 2 * 1.3; <<mid + side, mid - side>>,
\* as numerators over 20 times the denominator of l and r
WidenSample(l, r) ==
    <<10 * (l + r) + 13 * (l - r), 10 * (l + r) - 13 * (l - r)>>

\* the local `output` of stereo_widen when it reaches its return statement;
\* numerators over b.den * 1000 * 20
stereo_widen_output(b, rate, delay_ms, gain_diff_db) ==
    LET sig == EnsureStereo(b)
        delay_samples == WidenDelaySamples(rate, delay_ms)
        gain_factor == GainFactorMilli(gain_diff_db)
        left == sig[1]
        right == sig[2]
        right_delayed == [n \in 1..(delay_samples + Len(right)) |->
                            (IF n <= delay_samples THEN 0 ELSE right[n - delay_samples])
                              * gain_factor]
        left_padded == [n \in 1..(Len(left) + delay_samples) |->
                            (IF n <= Len(left) THEN left[n] ELSE 0) * 1000]
        mixed == [n \in 1..Len(left_padded) |->
                    WidenSample(left_padded[n], right_delayed[n])]
    IN Buffer(<< [n \in 1..Len(mixed) |-> mixed[n][1]],
                 [n \in 1..Len(mixed) |-> mixed[n][2]] >>, b.den * 20000)

stereo_widen(b, rate, delay_ms, gain_diff_db) ==
    peak_normalize(stereo_widen_output(b, rate, delay_ms, gain_diff_db),
                   default_target_peak)

\* ------------------------------------------------------------ eight_d_audio
\* sin(pi * u) in thousandths for u = uc/100 in [0, 1], by Bhaskara's
\* rational approximation 16u(1-u) / (5 - 4u(1-u))
SinHalfTurnMilli(uc) == (16000 * uc * (100 - uc)) \div (50000 - 4 * uc * (100 - uc))

\* np.sin(2 * np.pi * x) in thousandths, for x = num/den turns, num >= 0
SinTurnsMilli(num, den) ==
    LET uc == (200 * (num % den)) \div den
    IN IF uc < 100 THEN SinHalfTurnMilli(uc) ELSE -SinHalfTurnMilli(uc - 100)

\* np.sqrt(x / 10000) in hundredths, rounded down, for x in 0..10000
SqrtCenti(x) == CHOOSE r \in 0..100 : r * r <= x /\ (r + 1) * (r + 1) > x

\* the scaled pan_curve at sample n (0-based), in units of 1/20000:
\* 0.5 + intensity * ((0.5 + 0.5 * sin(2 pi pan_speed_hz n / sr)) - 0.5)
PanCurve(n, rate, pan_speed_hz, intensity) ==
    10000 + intensity * SinTurnsMilli(pan_speed_hz * n, 100 * rate)

\* <<left_gain, right_gain>> at sample n, in hundredths
PanGains(n, rate, pan_speed_hz, intensity) ==
    LET pan == PanCurve(n, rate, pan_speed_hz, intensity)
    IN <<SqrtCenti((20000 - pan) \div 2), SqrtCenti(pan \div 2)>>

CrossfeedSymmetric(l0, r0, crossfeed) ==
    IF crossfeed > 0
    THEN <<10 * (l0 * (10 - crossfeed) + r0 * crossfeed),
           10 * (r0 * (10 - crossfeed) + l0 * crossfeed)>>
    ELSE <<100 * l0, 100 * r0>>

\* the crossfeed step on one sample, as numerators over 100 times the
\* denominator of l0 and r0: left_out is recomputed first, right_out then
\* uses the recomputed left_out
Crossfeed(l0, r0, crossfeed) ==
    IF crossfeed > 0
    THEN LET left_out == l0 * (10 - crossfeed) + r0 * crossfeed
         IN <<10 * left_out, 10 * r0 * (10 - crossfeed) + left_out * crossfeed>>
    ELSE <<100 * l0, 100 * r0>>

\* left_out and right_out after panning, before crossfeed; numerators over
\* b.den * 200
eight_d_panned(b, rate, pan_speed_hz, intensity) ==
    LET sig == EnsureStereo(b)
        num_samples == Len(sig[1])
        mono_mix == [n \in 1..num_samples |-> sig[1][n] + sig[2][n]]
        gains == [n \in 1..num_samples |-> PanGains(n - 1, rate, pan_speed_hz, intensity)]
    IN [left_out |-> [n \in 1..num_samples |-> mono_mix[n] * gains[n][1]],
        right_out |-> [n \in 1..num_samples |-> mono_mix[n] * gains[n][2]],
        den |-> b.den * 200]

\* the local `output` of eight_d_audio when it reaches its return statement;
\* numerators over b.den * 20000
eight_d_output(b, rate, pan_speed_hz, intensity, crossfeed) ==
    LET panned == eight_d_panned(b, rate, pan_speed_hz, intensity)
        fed == [n \in 1..Len(panned.left_out) |->
                  Crossfeed(panned.left_out[n], panned.right_out[n], crossfeed)]
    IN Buffer(<< [n \in 1..Len(fed) |-> fed[n][1]],
                 [n \in 1..Len(fed) |-> fed[n][2]] >>, panned.den * 100)

eight_d_audio(b, rate, pan_speed_hz, intensity, crossfeed) ==
    peak_normalize(eight_d_output(b, rate, pan_speed_hz, intensity, crossfeed),
                   default_target_peak)

\* -------------------------------------------------------------- pitch_shift
\* librosa.effects.pitch_shift(y=y, sr=sr, n_steps=n_steps) is not code of the
\* repository: it returns some array of the length of y.  The set of the
\* arrays it may return for the channel y.
LibrosaPitchShift(y, rate, n_steps) == LibraryArrays(Len(y))

\* the values `shifted` may take: one library call on the mono array, or one
\* per channel stacked with np.stack(channels, axis=0)
pitch_shift_shifted(b, rate, semitones) ==
    IF ndim(b) = 1
    THEN { Buffer(<<y>>, 1) : y \in LibrosaPitchShift(b.ch[1], rate, semitones) }
    ELSE { Buffer(<<y1, y2>>, 1) :
             y1 \in LibrosaPitchShift(b.ch[1], rate, semitones),
             y2 \in LibrosaPitchShift(b.ch[2], rate, semitones) }

\* return peak_normalize(shifted)
pitch_shift_unnormalized(shifted) == Ok(shifted)

pitch_shift(shifted) == peak_normalize(shifted, default_target_peak)

\* ---------------------------------------------------------------- equalizer
\* BANDS, in the order the dict is iterated: name and centre frequency in Hz
BANDS == << <<"sub_bass", 60>>, <<"bass", 170>>, <<"low_mid", 500>>,
            <<"mid", 1000>>, <<"high_mid", 3000>>, <<"presence", 6000>>,
            <<"brilliance", 12000>> >>

\* band_gains_db.get(band_name, 0.0), in thousandths of a dB
BandGain(band_gains_db, band_name) ==
    IF band_name \in DOMAIN band_gains_db THEN band_gains_db[band_name] ELSE 0

EqBandKeptAtNyquist(band, rate, band_gains_db) ==
    /\ ~(Abs(BandGain(band_gains_db, band[1])) < 10)
    /\ ~(2 * band[2] > rate)

\* the band passes both `continue` tests: abs(gain) < 0.01 and
\* centre_freq >= sr / 2
EqBandKept(band, rate, band_gains_db) ==
    /\ ~(Abs(BandGain(band_gains_db, band[1])) < 10)
    /\ ~(2 * band[2] >= rate)

\* sos_sections after the loop; a section is kept as the arguments of
\* _peaking_eq_sos(centre_freq, gain, q=1.4, fs=sr), q in tenths
RECURSIVE EqSections(_, _, _)
EqSections(i, rate, band_gains_db) ==
    IF i > Len(BANDS) THEN <<>>
    ELSE LET band == BANDS[i]
             rest == EqSections(i + 1, rate, band_gains_db)
         IN IF EqBandKept(band, rate, band_gains_db)
            THEN <<[band |-> band[1], freq |-> band[2],
                    gain_db |-> BandGain(band_gains_db, band[1]),
                    q |-> 14, fs |-> rate]>> \o rest
            ELSE rest

\* scipy.signal.sosfilt(sos_array, y).astype(np.float32) is not code of the
\* repository: it returns some array of the length of y.  The set of the
\* arrays it may return for the channel y.
ScipySosfilt(sos_array, y) == LibraryArrays(Len(y))

\* the values `output` may take on the filtering path
equalizer_filtered(b, sos_array) ==
    IF ndim(b) = 1
    THEN { Buffer(<<y>>, 1) : y \in ScipySosfilt(sos_array, b.ch[1]) }
    ELSE { Buffer(<<y1, y2>>, 1) :
             y1 \in ScipySosfilt(sos_array, b.ch[1]),
             y2 \in ScipySosfilt(sos_array, b.ch[2]) }

equalizer_return_normalized(b, sos_sections, filtered) ==
    IF sos_sections = <<>> THEN peak_normalize(b, default_target_peak)
    ELSE peak_normalize(filtered, default_target_peak)

\* signal.copy() when no section was built, else peak_normalize(output)
equalizer_return(b, sos_sections, filtered) ==
    IF sos_sections = <<>> THEN Ok(b)
    ELSE peak_normalize(filtered, default_target_peak)

\* ------------------------------------------------ schemas and _apply_effect
\* a value of the params dict: a number in the unit of its field, or
\* something that is not a number
Num(n) == [kind |-> "number", v |-> n]
Text == [kind |-> "text", v |-> 0]

\* Field(default, ge=, gt=, le=); default None is the required marker `...`
Field(name, default, ge, gt, le) ==
    [name |-> name, default |-> default, ge |-> ge, gt |-> gt, le |-> le]

\* times in ticks
TrimParams ==
    << Field("start_time", None, Some(0), None, None),
       Field("end_time", None, None, Some(0), None) >>
PitchShiftParams == << Field("semitones", Some(0), Some(-12), None, Some(12)) >>
\* decay in tenths
ReverbParams ==
    << Field("decay", Some(5), Some(1), None, Some(9)),
       Field("delay_ms", Some(100), Some(50), None, Some(300)) >>
\* gain_diff_db in tenths of a dB
StereoWidenParams ==
    << Field("delay_ms", Some(10), Some(5), None, Some(20)),
       Field("gain_diff_db", Some(15), Some(0), None, Some(60)) >>
\* pan_speed_hz in hundredths of a Hz, intensity and crossfeed in tenths
EightDAudioParams ==
    << Field("pan_speed_hz", Some(15), Some(5), None, Some(100)),
       Field("intensity", Some(8), Some(1), None, Some(10)),
       Field("crossfeed", Some(3), Some(0), None, Some(6)) >>
\* gains in thousandths of a dB
EqualizerParams ==
    [i \in 1..Len(BANDS) |->
        Field(BANDS[i][1], Some(0), Some(-12000), None, Some(12000))]

FieldNamed(schema, n) == schema[CHOOSE i \in 1..Len(schema) : schema[i].name = n]

FieldErrorNoUpper(f, params) ==
    IF f.name \notin DOMAIN params THEN f.default = None
    ELSE LET raw == params[f.name]
         IN \/ raw.kind # "number"
            \/ f.ge # None /\ raw.v < f.ge[1]
            \/ f.gt # None /\ raw.v <= f.gt[1]

\* the field is reported by the model's constructor: missing though required,
\* not a number, or outside a bound
FieldError(f, params) ==
    IF f.name \notin DOMAIN params THEN f.default = None
    ELSE LET raw == params[f.name]
         IN \/ raw.kind # "number"
            \/ f.ge # None /\ raw.v < f.ge[1]
            \/ f.gt # None /\ raw.v <= f.gt[1]
            \/ f.le # None /\ raw.v > f.le[1]

\* XParams(**params): the validated fields, or a ValidationError (a
\* ValueError) that lists every field in error
Validate(schema, params) ==
    LET errors == { schema[i].name :
                      i \in { j \in 1..Len(schema) : FieldError(schema[j], params) } }
    IN IF errors # {}
       THEN [kind |-> "raise", exc |-> "ValidationError",
             msg |-> "validation error", fields |-> errors]
       ELSE [kind |-> "ok",
             v |-> [n \in { schema[i].name : i \in 1..Len(schema) } |->
                      IF n \in DOMAIN params THEN params[n].v
                      ELSE FieldNamed(schema, n).default[1]]]

\* the decay of tenths as a fraction in lowest terms
DecayFraction(tenths) ==
    IF tenths % 5 = 0 THEN <<tenths \div 5, 2>>
    ELSE IF tenths % 2 = 0 THEN <<tenths \div 2, 5>>
    ELSE <<tenths, 10>>

\* the results equalizer(signal, sr, band_gains_db) may return
equalizer(b, rate, band_gains_db) ==
    LET sos_sections == EqSections(1, rate, band_gains_db)
    IN IF sos_sections = <<>> THEN {equalizer_return(b, sos_sections, NoBuffer)}
       ELSE { equalizer_return(b, sos_sections, filtered) :
                filtered \in equalizer_filtered(b, sos_sections) }

\* one way a call of _apply_effect can go: the result of the schema
\* constructor, the effect function invoked with its keyword arguments, and
\* what the call returns or raises
Invoked(validated, function, results) ==
    { [validated |-> validated, invoked |-> function, out |-> r] : r \in results }
NotInvoked(validated, raised) ==
    { [validated |-> validated, invoked |-> "none", out |-> raised] }

UnknownEffectAsReverse(b, rate, effect) ==
    Invoked(NoLocals, "reverse_audio", {reverse_audio(b, rate)})

\* case _: raise ValueError(f"Unknown effect: {effect}")
UnknownEffect(b, rate, effect) ==
    NotInvoked(NoLocals, Raise("ValueError", "Unknown effect: " \o effect))

\* the match statement of _apply_effect
apply_effect(b, rate, effect, params) ==
    CASE effect = "reverse" ->
           Invoked(NoLocals, "reverse_audio", {reverse_audio(b, rate)})
      [] effect = "pitch_shift" ->
           LET validated == Validate(PitchShiftParams, params)
           IN IF validated.kind = "raise" THEN NotInvoked(validated, validated)
              ELSE Invoked(validated, "pitch_shift",
                     { pitch_shift(shifted) :
                         shifted \in pitch_shift_shifted(b, rate, validated.v.semitones) })
      [] effect = "reverb" ->
           LET validated == Validate(ReverbParams, params)
           IN IF validated.kind = "raise" THEN NotInvoked(validated, validated)
              ELSE Invoked(validated, "reverb",
                     { reverb(b, rate, DecayFraction(validated.v.decay),
                              validated.v.delay_ms) })
      [] effect = "stereo_widen" ->
           LET validated == Validate(StereoWidenParams, params)
           IN IF validated.kind = "raise" THEN NotInvoked(validated, validated)
              ELSE Invoked(validated, "stereo_widen",
                     { stereo_widen(b, rate, validated.v.delay_ms,
                                    validated.v.gain_diff_db) })
      [] effect = "trim" ->
           LET validated == Validate(TrimParams, params)
           IN IF validated.kind = "raise" THEN NotInvoked(validated, validated)
              ELSE Invoked(validated, "trim_audio",
                     { trim_audio(b, rate, validated.v.start_time,
                                  Some(validated.v.end_time)) })
      [] effect = "eight_d_audio" ->
           LET validated == Validate(EightDAudioParams, params)
           IN IF validated.kind = "raise" THEN NotInvoked(validated, validated)
              ELSE Invoked(validated, "eight_d_audio",
                     { eight_d_audio(b, rate, validated.v.pan_speed_hz,
                                     validated.v.intensity, validated.v.crossfeed) })
      [] effect = "equalizer" ->
           LET validated == Validate(EqualizerParams, params)
           IN IF validated.kind = "raise" THEN NotInvoked(validated, validated)
              ELSE Invoked(validated, "equalizer", equalizer(b, rate, validated.v))
      [] OTHER -> UnknownEffect(b, rate, effect)

\* ---------------------------------------------------- arrays and storage
\* A call is also followed statement by statement for the array objects its
\* names are bound to.  An array has a storage: "input" is the storage of the
\* caller's array, a name such as "output" the storage allocated when that
\* name was first assigned a new array.
\*   New    v = <expression that builds a new array>  (np.zeros, np.stack,
\*          np.concatenate, arithmetic, .copy(), a library call)
\*   View   v = from[...]   (basic indexing: a view on the storage of from)
\*   Bind   v = from        (the same object)
\*   Write  v[...] = ..., v += ..., v *= ...   (writes the storage of v)
\*   Return return v
\*   RaiseAt the statement raises
New(v, line) == [kind |-> "new", v |-> v, from |-> v, line |-> line]
View(v, from, line) == [kind |-> "view", v |-> v, from |-> from, line |-> line]
Bind(v, from, line) == [kind |-> "bind", v |-> v, from |-> from, line |-> line]
Write(v, line) == [kind |-> "write", v |-> v, from |-> v, line |-> line]
Return(v, line) == [kind |-> "return", v |-> v, from |-> v, line |-> line]
RaiseAt(line) == [kind |-> "raise", v |-> "", from |-> "", line |-> line]

\* the frame at entry: the parameter `signal` is the caller's array
EntryFrame ==
    [objects |-> [v \in {"signal"} |-> "input"], written |-> {},
     returned |-> "none", raised |-> FALSE]

Assign(objects, v, storage) ==
    [x \in DOMAIN objects \cup {v} |-> IF x = v THEN storage ELSE objects[x]]

\* the frame after the statements stmts[i..] have run
RECURSIVE Exec(_, _, _)
Exec(stmts, i, frame) ==
    IF i > Len(stmts) THEN frame
    ELSE LET st == stmts[i]
         IN CASE st.kind = "new" ->
                   Exec(stmts, i + 1,
                        [frame EXCEPT !.objects = Assign(@, st.v, st.v)])
              [] st.kind \in {"view", "bind"} ->
                   Exec(stmts, i + 1,
                        [frame EXCEPT !.objects = Assign(@, st.v, @[st.from])])
              [] st.kind = "write" ->
                   Exec(stmts, i + 1,
                        [frame EXCEPT !.written = @ \cup {frame.objects[st.v]}])
              [] st.kind = "return" ->
                   [frame EXCEPT !.returned = frame.objects[st.v]]
              [] OTHER -> [frame EXCEPT !.raised = TRUE]

\* what peak_normalize does with the array it is given: "raise" on a
\* zero-size array, "zero" when the peak is 0, else "scaled"
NormalizePath(b) ==
    IF AllSamples(b) = {} THEN "raise"
    ELSE IF PeakOf(b) = 0 THEN "zero" ELSE "scaled"

\* peak_normalize(v)
peak_normalize_stmts(v, path) ==
    IF path = "raise" THEN << New("abs", 29), RaiseAt(29) >>
    ELSE IF path = "zero" THEN << New("abs", 29), Return(v, 31) >>
    ELSE << New("abs", 29), New("scaled", 32), Return("scaled", 32) >>

\* reverse_audio: signal[::-1].copy(), signal[:, ::-1].copy()
reverse_audio_stmts(nd) ==
    IF nd = 1 THEN << View("reversed", "signal", 47), New("copy", 47), Return("copy", 47) >>
    ELSE << View("reversed", "signal", 49), New("copy", 49), Return("copy", 49) >>

\* pitch_shift up to the call of peak_normalize
pitch_shift_stmts(nd) ==
    IF nd = 1 THEN << New("shifted", 68) >>
    ELSE << View("ch0", "signal", 72), New("y0", 72),
            View("ch1", "signal", 72), New("y1", 72), New("shifted", 75) >>

\* one round of the reflection loop of reverb
reverb_round_stmts(nd) ==
    IF nd = 1 THEN << View("head", "signal", 113), New("echo", 113), Write("output", 113) >>
    ELSE << View("head", "signal", 125), New("echo", 125), Write("output", 125) >>

\* reverb up to the call of peak_normalize
reverb_stmts(nd) ==
    LET round == reverb_round_stmts(nd)
        first == IF nd = 1 THEN << New("output", 105), Write("output", 106) >>
                 ELSE << New("output", 117), Write("output", 118) >>
    IN first \o round \o round \o round \o round \o round

\* the `Ensure stereo` statement of stereo_widen and eight_d_audio
ensure_stereo_stmts(nd, line) ==
    IF nd = 1 THEN << New("copy", line), New("stacked", line), Bind("signal", "stacked", line) >>
    ELSE << >>

stereo_widen_stmts_nodelay(nd) ==
    ensure_stereo_stmts(nd, 156) \o
    << View("left", "signal", 161), View("right", "signal", 162),
       View("right_delayed", "right", 165), New("left_padded", 167),
       Write("right_delayed", 170),
       New("mid", 173), New("side", 174), Write("side", 176),
       New("new_left", 178), New("new_right", 179), New("output", 181) >>

\* stereo_widen up to the call of peak_normalize
stereo_widen_stmts(nd) ==
    ensure_stereo_stmts(nd, 156) \o
    << View("left", "signal", 161), View("right", "signal", 162),
       New("right_delayed", 165), New("left_padded", 167),
       Write("right_delayed", 170),
       New("mid", 173), New("side", 174), Write("side", 176),
       New("new_left", 178), New("new_right", 179), New("output", 181) >>

\* trim_audio; error is the result of the validation block
trim_audio_stmts(nd, error) ==
    IF error.kind = "raise"
    THEN << RaiseAt(IF error.msg = MsgStartNegative THEN 212
                    ELSE IF error.msg = MsgEndExceeds THEN 214 ELSE 218) >>
    ELSE IF nd = 1
    THEN << View("slice", "signal", 229), New("copy", 229), Return("copy", 229) >>
    ELSE << View("slice", "signal", 230), New("copy", 230), Return("copy", 230) >>

\* eight_d_audio up to the call of peak_normalize; crossfeed in tenths
eight_d_audio_stmts(nd, crossfeed) ==
    ensure_stereo_stmts(nd, 271) \o
    << New("t", 276), New("pan_curve", 277), New("pan_curve", 280),
       New("right_gain", 283), New("left_gain", 284),
       View("ch0", "signal", 287), View("ch1", "signal", 287), New("mono_mix", 287),
       New("left_out", 290), New("right_out", 291) >> \o
    (IF crossfeed > 0 THEN << New("left_out", 295), New("right_out", 296) >>
     ELSE << >>) \o
    << New("output", 298) >>

\* equalizer from `if not sos_sections` up to the call of peak_normalize
equalizer_stmts(nd, sos_sections) ==
    IF sos_sections = <<>> THEN << New("copy", 383), Return("copy", 383) >>
    ELSE IF nd = 1 THEN << New("filtered", 389), New("output", 389) >>
    ELSE << View("ch0", "signal", 393), New("filtered", 393), New("filtered", 393),
            View("ch1", "signal", 393), New("filtered", 393), New("filtered", 393),
            New("output", 395) >>

\* the frame when the call is over: the statements of the effect, then, if
\* the effect has not returned or raised, those of peak_normalize(v) on the
\* array `result` it built
CallFrame(stmts, v, result) ==
    LET frame == Exec(stmts, 1, EntryFrame)
    IN IF frame.returned # "none" \/ frame.raised THEN frame
       ELSE Exec(peak_normalize_stmts(v, NormalizePath(result)), 1, frame)

\* ----------------------------------------------------------- state machine
\* the service before any request: empty directories, the cleanup task asleep
NoFiles == [p \in {} |-> 0]
FILE_TTL_MINUTES == 30
\* no request in flight, no id handed out, the cleanup task in its first sleep
ServiceIdle ==
    /\ now = 0
    /\ pc = "idle"
    /\ calls = 0
    /\ responses = <<>>
    /\ issued = 0
    /\ cleaner = [state |-> "sleeping", called |-> 0, cutoff |-> 0,
                  dirs |-> <<>>, todo |-> <<>>, deleted |-> 0, raised |-> FALSE]
ServiceAtStart == files = NoFiles /\ ServiceIdle

MonoBuffers ==
    { Buffer(<<s>>, 1) : s \in UNION { [1..n -> SampleValues] : n \in 0..MaxLen } }

StereoBuffers ==
    UNION { { Buffer(<<l, r>>, 1) : l \in [1..n -> SampleValues],
                                    r \in [1..n -> SampleValues] } : n \in 0..MaxLen }

Init ==
    /\ signal \in MonoBuffers \cup StereoBuffers
    /\ sr \in SampleRates
    /\ op = "none"
    /\ args = <<>>
    /\ locals = NoLocals
    /\ output = NoBuffer
    /\ out = NoResult
    /\ ServiceAtStart

Reverse ==
    /\ op = "none"
    /\ op' = "reverse"
    /\ args' = <<>>
    /\ locals' = NoLocals
    /\ output' = NoBuffer
    /\ out' = reverse_audio(signal, sr)
    /\ UNCHANGED <<signal, sr, service>>

ReverseAgain ==
    /\ op = "reverse"
    /\ out.kind = "ok"
    /\ op' = "reverse_reverse"
    /\ out' = reverse_audio(out.buf, sr)
    /\ UNCHANGED <<signal, sr, args, locals, output, service>>

Normalize ==
    /\ op = "none"
    /\ \E tp \in TargetPeaks :
         /\ args' = [target_peak |-> tp]
         /\ out' = peak_normalize(signal, tp)
    /\ op' = "normalize"
    /\ locals' = NoLocals
    /\ output' = NoBuffer
    /\ UNCHANGED <<signal, sr, service>>

Ticks == -1..MaxTick

Trim ==
    /\ op = "none"
    /\ \E st \in Ticks, et \in {None} \cup { Some(t) : t \in Ticks } :
         /\ args' = [start_time |-> st, end_time |-> et]
         /\ out' = trim_audio(signal, sr, st, et)
    /\ op' = "trim"
    /\ locals' = NoLocals
    /\ output' = NoBuffer
    /\ UNCHANGED <<signal, sr, service>>

Reverb ==
    /\ op = "none"
    /\ \E decay \in Decays, delay_ms \in DelaysMs :
         /\ DelaySamples(sr, delay_ms) <= MaxDelaySamples
         /\ args' = [decay |-> decay, delay_ms |-> delay_ms]
         /\ output' = reverb_output(signal, sr, decay, delay_ms)
         /\ out' = reverb(signal, sr, decay, delay_ms)
    /\ op' = "reverb"
    /\ locals' = NoLocals
    /\ UNCHANGED <<signal, sr, service>>

StereoWiden ==
    /\ op = "none"
    /\ \E delay_ms \in WidenDelaysMs, gain_diff_db \in GainDiffsDb :
         /\ args' = [delay_ms |-> delay_ms, gain_diff_db |-> gain_diff_db]
         /\ output' = stereo_widen_output(signal, sr, delay_ms, gain_diff_db)
         /\ out' = stereo_widen(signal, sr, delay_ms, gain_diff_db)
    /\ op' = "stereo_widen"
    /\ locals' = NoLocals
    /\ UNCHANGED <<signal, sr, service>>

EightDAudio ==
    /\ op = "none"
    /\ \E pan_speed_hz \in PanSpeedsHz, intensity \in Intensities, crossfeed \in Crossfeeds :
         /\ args' = [pan_speed_hz |-> pan_speed_hz, intensity |-> intensity,
                     crossfeed |-> crossfeed]
         /\ locals' = eight_d_panned(signal, sr, pan_speed_hz, intensity)
         /\ output' = eight_d_output(signal, sr, pan_speed_hz, intensity, crossfeed)
         /\ out' = eight_d_audio(signal, sr, pan_speed_hz, intensity, crossfeed)
    /\ op' = "eight_d_audio"
    /\ UNCHANGED <<signal, sr, service>>

PitchShift ==
    /\ op = "none"
    /\ \E semitones \in Semitones :
         /\ args' = [semitones |-> semitones]
         /\ \E shifted \in pitch_shift_shifted(signal, sr, semitones) :
               /\ output' = shifted
               /\ out' = pitch_shift(shifted)
    /\ op' = "pitch_shift"
    /\ locals' = NoLocals
    /\ UNCHANGED <<signal, sr, service>>

Equalizer ==
    /\ op = "none"
    /\ \E band_gains_db \in EqGainSets :
         LET sos_sections == EqSections(1, sr, band_gains_db)
         IN /\ args' = [band_gains_db |-> band_gains_db]
            /\ locals' = [sos_sections |-> sos_sections]
            /\ \E filtered \in (IF sos_sections = <<>> THEN {NoBuffer}
                                 ELSE equalizer_filtered(signal, sos_sections)) :
                  /\ output' = filtered
                  /\ out' = equalizer_return(signal, sos_sections, filtered)
    /\ op' = "equalizer"
    /\ UNCHANGED <<signal, sr, service>>

\* a field left out of the params dict
Missing == [kind |-> "missing", v |-> 0]

\* the values tried for a field: `plain` ones, and `probe` ones just outside
\* a bound or not a number
Tried(name, plain, probe) == [name |-> name, plain |-> plain, probe |-> probe]

\* the params dicts built from a sequence of tried fields: every field plain
\* or missing; one field a probe; every field a probe
RawDicts(fields) ==
    LET idx == 1..Len(fields)
        names == { fields[i].name : i \in idx }
        F(n) == fields[CHOOSE i \in idx : fields[i].name = n]
        values == UNION { fields[i].plain \cup fields[i].probe : i \in idx }
                     \cup {Missing}
        plain == { a \in [names -> values] :
                     \A n \in names : a[n] \in F(n).plain \cup {Missing} }
        one == { [a EXCEPT ![n] = x] : a \in plain,
                   <<n, x>> \in { <<m, y>> \in names \X values : y \in F(m).probe } }
        all == { a \in [names -> values] :
                   \A n \in names : a[n] = Text /\ Text \in F(n).probe }
        Dict(a) == [n \in { m \in names : a[m] # Missing } |-> a[n]]
    IN { Dict(a) : a \in plain \cup one \cup all }

PitchShiftRaw ==
    RawDicts(<< Tried("semitones", {Num(-12)}, {Num(-13), Num(13), Text}) >>)
ReverbRaw ==
    RawDicts(<< Tried("decay", {Num(9)}, {Num(0), Num(10), Text}),
                Tried("delay_ms", {Num(50)}, {Num(49), Num(301), Text}) >>)
StereoWidenRaw ==
    RawDicts(<< Tried("delay_ms", {Num(20)}, {Num(4), Num(21), Text}),
                Tried("gain_diff_db", {Num(0)}, {Num(-1), Num(61), Text}) >>)
TrimRaw ==
    RawDicts(<< Tried("start_time", {Num(0), Num(1)}, {Num(-1), Text}),
                Tried("end_time", {Num(2), Num(5)}, {Num(0), Num(-1), Text}) >>)
EightDAudioRaw ==
    RawDicts(<< Tried("pan_speed_hz", {Num(100)}, {Num(4), Num(101), Text}),
                Tried("intensity", {Num(10)}, {Num(0), Num(11), Text}),
                Tried("crossfeed", {Num(0)}, {Num(-1), Num(7), Text}) >>)
EqualizerRaw ==
    { [n \in DOMAIN g |-> Num(g[n])] : g \in EqGainSets } \cup
    { [n \in {"bass"} |-> Num(12001)],
      [n \in {"sub_bass", "mid"} |-> IF n = "mid" THEN Text ELSE Num(-12001)],
      [n \in {"sub_bass", "brilliance"} |->
          IF n = "sub_bass" THEN Num(-12000) ELSE Num(12000)] }
ReverseRaw == { <<>>, [n \in {"semitones"} |-> Text] }

\* the effect identifiers tried, the last two not members of EffectName
EffectIds ==
    {"reverse", "pitch_shift", "reverb", "stereo_widen", "trim",
     "eight_d_audio", "equalizer", "echo", "REVERSE"}

RawParams(effect) ==
    CASE effect = "pitch_shift" -> PitchShiftRaw
      [] effect = "reverb" -> ReverbRaw
      [] effect = "stereo_widen" -> StereoWidenRaw
      [] effect = "trim" -> TrimRaw
      [] effect = "eight_d_audio" -> EightDAudioRaw
      [] effect = "equalizer" -> EqualizerRaw
      [] OTHER -> ReverseRaw

\* reverb is reached only with a delay of at most MaxDelaySamples samples
WithinDelayBound(rate, effect, params) ==
    (effect = "reverb" /\ Validate(ReverbParams, params).kind = "ok") =>
        DelaySamples(rate, Validate(ReverbParams, params).v.delay_ms) <= MaxDelaySamples

ApplyEffect ==
    /\ op = "none"
    /\ \E effect \in EffectIds :
         \E params \in RawParams(effect) :
           /\ WithinDelayBound(sr, effect, params)
           /\ \E way \in apply_effect(signal, sr, effect, params) :
                 /\ args' = [effect |-> effect, params |-> params]
                 /\ locals' = [validated |-> way.validated, invoked |-> way.invoked]
                 /\ out' = way.out
    /\ op' = "apply_effect"
    /\ output' = NoBuffer
    /\ UNCHANGED <<signal, sr, service>>

Next ==
    \/ Reverse
    \/ ReverseAgain
    \/ Normalize
    \/ Trim
    \/ Reverb
    \/ StereoWiden
    \/ EightDAudio
    \/ PitchShift
    \/ Equalizer
    \/ ApplyEffect

Spec == Init /\ [][Next]_vars

\* ------------------------------------------ the calls, with their storage
\* The same calls, with `locals` the frame of the call: the storage of every
\* array a name is bound to, the storages written, the storage returned.
MemNormalize ==
    /\ op = "none"
    /\ \E tp \in TargetPeaks :
         /\ args' = [target_peak |-> tp]
         /\ out' = peak_normalize(signal, tp)
    /\ locals' = Exec(peak_normalize_stmts("signal", NormalizePath(signal)), 1, EntryFrame)
    /\ op' = "normalize"
    /\ output' = NoBuffer
    /\ UNCHANGED <<signal, sr, service>>

MemReverse ==
    /\ op = "none"
    /\ op' = "reverse"
    /\ args' = <<>>
    /\ locals' = Exec(reverse_audio_stmts(ndim(signal)), 1, EntryFrame)
    /\ output' = NoBuffer
    /\ out' = reverse_audio(signal, sr)
    /\ UNCHANGED <<signal, sr, service>>

MemPitchShift ==
    /\ op = "none"
    /\ \E shifted \in pitch_shift_shifted(signal, sr, 0) :
         /\ locals' = CallFrame(pitch_shift_stmts(ndim(signal)), "shifted", shifted)
         /\ output' = shifted
         /\ out' = pitch_shift(shifted)
    /\ args' = [semitones |-> 0]
    /\ op' = "pitch_shift"
    /\ UNCHANGED <<signal, sr, service>>

MemReverb ==
    /\ op = "none"
    /\ \E delay_ms \in {50, 100} :
         /\ DelaySamples(sr, delay_ms) <= MaxDelaySamples
         /\ args' = [decay |-> <<1, 2>>, delay_ms |-> delay_ms]
         /\ output' = reverb_output(signal, sr, <<1, 2>>, delay_ms)
         /\ out' = reverb(signal, sr, <<1, 2>>, delay_ms)
         /\ locals' = CallFrame(reverb_stmts(ndim(signal)), "output",
                               reverb_output(signal, sr, <<1, 2>>, delay_ms))
    /\ op' = "reverb"
    /\ UNCHANGED <<signal, sr, service>>

MemStereoWiden ==
    /\ op = "none"
    /\ \E delay_ms \in {10, 20} :
         /\ args' = [delay_ms |-> delay_ms, gain_diff_db |-> 15]
         /\ output' = stereo_widen_output(signal, sr, delay_ms, 15)
         /\ out' = stereo_widen(signal, sr, delay_ms, 15)
         /\ locals' = CallFrame(stereo_widen_stmts(ndim(signal)), "output",
                               stereo_widen_output(signal, sr, delay_ms, 15))
    /\ op' = "stereo_widen"
    /\ UNCHANGED <<signal, sr, service>>

MemTrim ==
    /\ op = "none"
    /\ \E st \in {-1, 0, 1}, et \in {None, Some(1), Some(2), Some(5)} :
         LET start == <<st, TimeDen>>
             end == IF et = None THEN <<Len(signal.ch[1]), sr>> ELSE <<et[1], TimeDen>>
         IN /\ args' = [start_time |-> st, end_time |-> et]
            /\ out' = trim_audio(signal, sr, st, et)
            /\ locals' = Exec(trim_audio_stmts(ndim(signal),
                                               TrimRangeError(signal, sr, start, end)),
                             1, EntryFrame)
    /\ op' = "trim"
    /\ output' = NoBuffer
    /\ UNCHANGED <<signal, sr, service>>

MemEightDAudio ==
    /\ op = "none"
    /\ \E crossfeed \in {0, 3} :
         /\ args' = [pan_speed_hz |-> 15, intensity |-> 8, crossfeed |-> crossfeed]
         /\ output' = eight_d_output(signal, sr, 15, 8, crossfeed)
         /\ out' = eight_d_audio(signal, sr, 15, 8, crossfeed)
         /\ locals' = CallFrame(eight_d_audio_stmts(ndim(signal), crossfeed), "output",
                               eight_d_output(signal, sr, 15, 8, crossfeed))
    /\ op' = "eight_d_audio"
    /\ UNCHANGED <<signal, sr, service>>

MemEqualizer ==
    /\ op = "none"
    /\ \E band_gains_db \in { <<>>, [b \in {"bass"} |-> 10000] } :
         LET sos_sections == EqSections(1, sr, band_gains_db)
         IN /\ args' = [band_gains_db |-> band_gains_db]
            /\ \E filtered \in (IF sos_sections = <<>> THEN {NoBuffer}
                                 ELSE equalizer_filtered(signal, sos_sections)) :
                  /\ output' = filtered
                  /\ out' = equalizer_return(signal, sos_sections, filtered)
                  /\ locals' = CallFrame(equalizer_stmts(ndim(signal), sos_sections),
                                        "output", filtered)
    /\ op' = "equalizer"
    /\ UNCHANGED <<signal, sr, service>>

MemNext ==
    \/ MemNormalize
    \/ MemReverse
    \/ MemPitchShift
    \/ MemReverb
    \/ MemStereoWiden
    \/ MemTrim
    \/ MemEightDAudio
    \/ MemEqualizer

MemSpec == Init /\ [][MemNext]_vars

\* -------------------------------------------------------------- the service
\* Uploads, /process requests and the periodic cleanup share the temporary
\* directories.  `files` maps the path of every existing entry to its kind,
\* its modification time in minutes and the audio it holds.  `signal`, `sr`,
\* `args`, `locals` and `out` are those of the process_audio call in flight,
\* `pc` its position.
MaxClock == 2
MaxIds == 2
ALLOWED_EXTENSIONS == {".mp3", ".wav", ".ogg", ".flac", ".m4a"}

\* the uuid4 hex strings, in the order generate_file_id hands them out
FileId(n) == "id" \o ToString(n)

UPLOAD_DIR == "uploads"
PROCESSED_DIR == "processed"
VISUALIZATION_DIR == "visualizations"
\* a path: directory, stem and suffix of the name
uploaded_path(file_id, ext) == <<UPLOAD_DIR, file_id, ext>>
processed_path(file_id, ext) == <<PROCESSED_DIR, file_id, ext>>
wav_path_for(file_id, directory) == <<directory, file_id, ".wav">>

Exists(path) == path \in DOMAIN files
\* `by` is the function that wrote the file
RegularFile(mtime, audio, by) ==
    [kind |-> "file", mtime |-> mtime, audio |-> audio, by |-> by]
WriteFile(fs, path, entry) ==
    [p \in DOMAIN fs \cup {path} |-> IF p = path THEN entry ELSE fs[p]]
Unlink(fs, path) == [p \in DOMAIN fs \ {path} |-> fs[p]]

\* the audio of the files uploaded: what the decoder yields for them
Recordings == { [signal |-> Buffer(<< <<1, -2>> >>, 1), sr |-> 10] }
\* the extensions of the file names uploaded, the last one not allowed
UploadExtensions == {".mp3", ".wav", ".txt"}

\* POST /upload: extension check, write under a new id, read the metadata;
\* `oversized` tells whether the contents exceed MAX_FILE_SIZE_BYTES,
\* `readable` whether get_audio_info can read the file.  An upload
\* writes a file of the present minute, which no scan deletes: it is taken
\* between requests and between scans.
Upload ==
    /\ pc \in {"idle", "done"}
    /\ cleaner.state # "scanning"
    /\ issued < MaxIds
    /\ \E ext \in UploadExtensions, audio \in Recordings,
          oversized \in BOOLEAN, readable \in BOOLEAN :
         IF ext \notin ALLOWED_EXTENSIONS \/ oversized
         THEN UNCHANGED <<files, issued>>
         ELSE LET file_id == FileId(issued + 1)
                  dest == uploaded_path(file_id, ext)
              IN /\ issued' = issued + 1
                 /\ files' = IF readable
                             THEN WriteFile(files, dest,
                                            RegularFile(now, audio, "upload"))
                             ELSE files
    /\ UNCHANGED <<signal, sr, op, args, locals, output, out>>
    /\ UNCHANGED <<now, pc, calls, responses, cleaner>>

\* the except clauses of process_effect: the status of the HTTPException
process_effect_status(exc) ==
    IF exc = "FileNotFoundError" THEN 404
    ELSE IF exc \in {"ValueError", "ValidationError"} THEN 422
    ELSE 500

\* the call of process_audio raised: its frame is gone, process_effect
\* answers with one error response, the request is over
Failed(raised) ==
    /\ responses' = Append(responses, process_effect_status(raised.exc))
    /\ locals' = [error |-> raised, at |-> pc]
    /\ pc' = "done"
    /\ args' = <<>>
    /\ signal' = NoBuffer
    /\ sr' = 0
    /\ out' = NoResult

\* process_audio goes on with its next step
Continue(step) ==
    /\ pc' = step
    /\ UNCHANGED <<args, responses, locals>>

\* the effects and parameters of the /process requests sent, times in ticks;
\* the last effect is not a member of EffectName
Effects ==
    { [effect |-> "reverse", parameters |-> <<>>],
      [effect |-> "trim",
       parameters |-> [n \in {"start_time", "end_time"} |->
                         IF n = "start_time" THEN Num(0) ELSE Num(2)]],
      [effect |-> "trim",
       parameters |-> [n \in {"start_time", "end_time"} |->
                         IF n = "start_time" THEN Num(0) ELSE Num(6)]],
      [effect |-> "pitch_shift", parameters |-> [n \in {"semitones"} |-> Num(13)]],
      [effect |-> "echo", parameters |-> <<>>] }
EffectName ==
    {"reverse", "pitch_shift", "reverb", "stereo_widen", "trim",
     "eight_d_audio", "equalizer"}
\* the bodies of the requests: for the first id handed out, and one for an
\* id never handed out
Requests ==
    { [file_id |-> FileId(1), effect |-> e.effect, parameters |-> e.parameters] :
        e \in Effects }
    \cup { [file_id |-> "0", effect |-> "reverse", parameters |-> <<>>] }

\* POST /process arrives: FastAPI validates the body against ProcessRequest,
\* then process_effect calls process_audio.  The arrival touches no file:
\* it is taken between scans, and the call it starts runs during them.
ProcessRequest ==
    /\ pc \in {"idle", "done"}
    /\ cleaner.state # "scanning"
    /\ \E request \in Requests :
         /\ IF request.effect \notin EffectName
            THEN /\ args' = <<>>
                 /\ calls' = 0
                 /\ responses' = <<422>>
                 /\ pc' = "done"
            ELSE /\ args' = request
                 /\ calls' = 1
                 /\ responses' = <<>>
                 /\ pc' = "locate"
    /\ locals' = NoLocals
    /\ UNCHANGED <<signal, sr, op, output, out>>
    /\ UNCHANGED <<files, now, issued, cleaner>>

\* 1. Locate source
Locate ==
    /\ pc = "locate"
    /\ IF ~Exists(uploaded_path(args.file_id, ".mp3"))
       THEN Failed(Raise("FileNotFoundError",
                         "Uploaded file not found: " \o args.file_id))
       ELSE /\ Continue("convert")
            /\ UNCHANGED <<signal, sr, out>>
    /\ UNCHANGED <<op, output>>
    /\ UNCHANGED <<files, now, calls, issued, cleaner>>

\* 2. Convert MP3 -> WAV unless the WAV is there; pydub opens the MP3, which
\* fails when the file is gone, and ffmpeg may fail to decode it
Convert ==
    /\ pc = "convert"
    /\ LET source_mp3 == uploaded_path(args.file_id, ".mp3")
           source_wav == wav_path_for(args.file_id, UPLOAD_DIR)
       IN IF Exists(source_wav)
          THEN /\ Continue("load")
               /\ UNCHANGED <<files, signal, sr, out>>
          ELSE IF ~Exists(source_mp3)
          THEN /\ Failed(Raise("FileNotFoundError", "No such file or directory"))
               /\ UNCHANGED files
          ELSE \/ /\ Failed(Raise("CouldntDecodeError", "Decoding failed"))
                  /\ UNCHANGED files
               \/ /\ files' = WriteFile(files, source_wav,
                                         RegularFile(now, files[source_mp3].audio,
                                                     "mp3_to_wav"))
                  /\ Continue("load")
                  /\ UNCHANGED <<signal, sr, out>>
    /\ UNCHANGED <<op, output>>
    /\ UNCHANGED <<now, calls, issued, cleaner>>

\* 3. Load audio: librosa.load of the WAV, which fails when the file is gone
Load ==
    /\ pc = "load"
    /\ LET source_wav == wav_path_for(args.file_id, UPLOAD_DIR)
       IN IF ~Exists(source_wav)
          THEN \E exc \in {"FileNotFoundError", "LibsndfileError"} :
                    Failed(Raise(exc, "No such file or directory"))
          ELSE /\ signal' = files[source_wav].audio.signal
               /\ sr' = files[source_wav].audio.sr
               /\ Continue("effect")
               /\ UNCHANGED out
    /\ UNCHANGED <<op, output>>
    /\ UNCHANGED <<files, now, calls, issued, cleaner>>

\* 4. Apply effect
Effect ==
    /\ pc = "effect"
    /\ \E way \in apply_effect(signal, sr, args.effect, args.parameters) :
         IF way.out.kind = "raise"
         THEN Failed(way.out)
         ELSE /\ out' = way.out
              /\ Continue("normalize")
              /\ UNCHANGED <<signal, sr>>
    /\ UNCHANGED <<op, output>>
    /\ UNCHANGED <<files, now, calls, issued, cleaner>>

process_audio_unnormalized(processed_signal) == Ok(processed_signal)

\* processed_signal = peak_normalize(processed_signal), target_peak 0.95
process_audio_normalize(processed_signal) ==
    peak_normalize(processed_signal, <<19, 20>>)

\* 5. Normalise
Normalise ==
    /\ pc = "normalize"
    /\ LET normalized == process_audio_normalize(out.buf)
       IN IF normalized.kind = "raise"
          THEN Failed(normalized)
          ELSE /\ out' = normalized
               /\ Continue("save")
               /\ UNCHANGED <<signal, sr>>
    /\ UNCHANGED <<op, output>>
    /\ UNCHANGED <<files, now, calls, issued, cleaner>>

\* 6. Save processed WAV under a new id
Save ==
    /\ pc = "save"
    /\ issued < MaxIds
    /\ LET proc_id == FileId(issued + 1)
           proc_wav == wav_path_for(proc_id, PROCESSED_DIR)
       IN /\ issued' = issued + 1
          /\ files' = WriteFile(files, proc_wav,
                                RegularFile(now, [signal |-> out.buf, sr |-> sr],
                                            "save_audio"))
          /\ locals' = [proc_id |-> proc_id]
    /\ pc' = "to_mp3"
    /\ UNCHANGED <<signal, sr, op, args, output, out>>
    /\ UNCHANGED <<now, calls, responses, cleaner>>

\* 7. Convert WAV -> MP3 and return the ProcessResponse; pydub opens the
\* WAV, which fails when the file is gone, and ffmpeg may fail to encode it
ToMp3 ==
    /\ pc = "to_mp3"
    /\ LET proc_wav == wav_path_for(locals.proc_id, PROCESSED_DIR)
           proc_mp3 == processed_path(locals.proc_id, ".mp3")
       IN IF ~Exists(proc_wav)
          THEN /\ Failed(Raise("FileNotFoundError", "No such file or directory"))
               /\ UNCHANGED files
          ELSE \/ /\ Failed(Raise("CouldntEncodeError", "Encoding failed"))
                  /\ UNCHANGED files
               \/ /\ files' = WriteFile(files, proc_mp3,
                                         RegularFile(now, files[proc_wav].audio,
                                                     "wav_to_mp3"))
                  /\ responses' = Append(responses, 200)
                  /\ pc' = "done"
                  /\ args' = <<>>
                  /\ signal' = NoBuffer
                  /\ sr' = 0
                  /\ out' = NoResult
                  /\ UNCHANGED locals
    /\ UNCHANGED <<op, output>>
    /\ UNCHANGED <<now, calls, issued, cleaner>>

\* ------------------------------------------------------ cleanup_old_files
\* Nothing in the code serialises the cleanup task of one worker process
\* and a request served by another: their file operations interleave.
IsStaleOrJustExpired(entry, cutoff) == entry.mtime <= cutoff

\* path.stat().st_mtime < cutoff
IsStale(entry, cutoff) == entry.mtime < cutoff

\* directory.iterdir(): the entries in the order of the file system, which
\* is fixed here as the order of the names
NameOrder(path) ==
    LET stem == IF \E n \in 1..MaxIds : path[2] = FileId(n)
                THEN CHOOSE n \in 1..MaxIds : path[2] = FileId(n)
                ELSE 0
        suffix == CASE path[3] = ".mp3" -> 1
                    [] path[3] = ".wav" -> 2
                    [] OTHER -> 0
    IN 3 * stem + suffix
RECURSIVE Listing(_)
Listing(paths) ==
    IF paths = {} THEN <<>>
    ELSE LET first == CHOOSE p \in paths :
                         \A q \in paths : NameOrder(p) <= NameOrder(q)
         IN <<first>> \o Listing(paths \ {first})
InDirectory(directory) == { p \in DOMAIN files : p[1] = directory }

\* _periodic_cleanup wakes from asyncio.sleep(interval) and calls
\* cleanup_old_files: cutoff and deleted are set
CleanupStart ==
    /\ cleaner.state = "due"
    /\ cleaner' = [cleaner EXCEPT !.state = "scanning",
                                  !.called = now,
                                  !.cutoff = now - FILE_TTL_MINUTES,
                                  !.dirs = <<UPLOAD_DIR, PROCESSED_DIR,
                                             VISUALIZATION_DIR>>,
                                  !.todo = <<>>, !.deleted = 0]
    /\ UNCHANGED <<signal, sr, op, args, locals, output, out>>
    /\ UNCHANGED <<files, now, pc, calls, responses, issued>>

\* cleanup_old_files is over and its frame gone; _periodic_cleanup, having
\* logged the exception if there was one, sleeps again
Sleeping(raised) ==
    [cleaner EXCEPT !.state = "sleeping", !.raised = raised, !.called = 0,
                    !.cutoff = 0, !.dirs = <<>>, !.todo = <<>>, !.deleted = 0]

\* for directory in (...): directory.iterdir() lists the next directory, or
\* raises OSError outside the try, which ends the call
CleanupList ==
    /\ cleaner.state = "scanning"
    /\ cleaner.todo = <<>>
    /\ cleaner.dirs # <<>>
    /\ \/ cleaner' = [cleaner EXCEPT
                        !.todo = Listing(InDirectory(Head(cleaner.dirs))),
                        !.dirs = Tail(cleaner.dirs)]
       \/ cleaner' = Sleeping(TRUE)
    /\ UNCHANGED <<signal, sr, op, args, locals, output, out>>
    /\ UNCHANGED <<files, now, pc, calls, responses, issued>>

\* the body of the inner loop for the next listed path: unlink may raise
\* OSError, which is logged, and the scan goes on
CleanupFile ==
    /\ cleaner.state = "scanning"
    /\ cleaner.todo # <<>>
    /\ LET path == Head(cleaner.todo)
       IN IF Exists(path) /\ files[path].kind = "file"
                          /\ IsStale(files[path], cleaner.cutoff)
          THEN \/ /\ files' = Unlink(files, path)
                  /\ cleaner' = [cleaner EXCEPT !.todo = Tail(@),
                                                !.deleted = @ + 1]
               \/ /\ files' = files
                  /\ cleaner' = [cleaner EXCEPT !.todo = Tail(@)]
          ELSE /\ files' = files
               /\ cleaner' = [cleaner EXCEPT !.todo = Tail(@)]
    /\ UNCHANGED <<signal, sr, op, args, locals, output, out>>
    /\ UNCHANGED <<now, pc, calls, responses, issued>>

\* return deleted
CleanupReturn ==
    /\ cleaner.state = "scanning"
    /\ cleaner.todo = <<>>
    /\ cleaner.dirs = <<>>
    /\ cleaner' = Sleeping(FALSE)
    /\ UNCHANGED <<signal, sr, op, args, locals, output, out>>
    /\ UNCHANGED <<files, now, pc, calls, responses, issued>>

\* half an hour passes, and with it the sleep of the cleanup task
Tick ==
    /\ now < MaxClock * FILE_TTL_MINUTES
    /\ now' = now + FILE_TTL_MINUTES
    /\ cleaner' = IF cleaner.state = "sleeping"
                  THEN [cleaner EXCEPT !.state = "due", !.raised = FALSE]
                  ELSE cleaner
    /\ UNCHANGED <<signal, sr, op, args, locals, output, out>>
    /\ UNCHANGED <<files, pc, calls, responses, issued>>

\* an entry that is not a regular file, left in the shared temporary
\* directory before the service started
StrayDirectory ==
    [p \in {<<UPLOAD_DIR, "lost+found", "">>} |->
        [kind |-> "dir", mtime |-> 0, audio |-> [signal |-> NoBuffer, sr |-> 0],
         by |-> "none"]]

ServiceInit ==
    /\ signal = NoBuffer
    /\ sr = 0
    /\ op = "none"
    /\ args = <<>>
    /\ locals = NoLocals
    /\ output = NoBuffer
    /\ out = NoResult
    /\ files = StrayDirectory
    /\ ServiceIdle

ServiceNext ==
    \/ Upload
    \/ ProcessRequest
    \/ Locate
    \/ Convert
    \/ Load
    \/ Effect
    \/ Normalise
    \/ Save
    \/ ToMp3
    \/ CleanupStart
    \/ CleanupList
    \/ CleanupFile
    \/ CleanupReturn
    \/ Tick

ServiceSpec == ServiceInit /\ [][ServiceNext]_vars

\* ------------------------------------------------------------------ claims
IsSilent(b) == \A x \in AllSamples(b) : x = 0

\* C1: reverse returns a buffer with the same channel count and the same
\* per-channel length N whose sample i is input sample N-1-i, on every channel.
C1_ReverseMirrors ==
    op = "reverse" =>
        /\ out.kind = "ok"
        /\ NumChannels(out.buf) = NumChannels(signal)
        /\ out.buf.den = signal.den
        /\ \A c \in 1..NumChannels(signal) :
              /\ Len(out.buf.ch[c]) = Len(signal.ch[c])
              /\ \A i \in 0..(Len(signal.ch[c]) - 1) :
                    out.buf.ch[c][i + 1] = signal.ch[c][(Len(signal.ch[c]) - 1 - i) + 1]

C1_Witness ==
    /\ op = "reverse"
    /\ NumChannels(signal) = 2
    /\ NumSamples(signal) = 2
    /\ signal.ch[1] # signal.ch[2]
    /\ signal.ch[1][1] # signal.ch[1][2]
    /\ out.kind = "ok"

\* C2: reverse applied twice gives back the buffer, channel by channel and
\* sample by sample, lengths 0 and 1 included.
C2_DoubleReverseIdentity ==
    op = "reverse_reverse" => out.kind = "ok" /\ out.buf = signal

C2_Witness ==
    /\ op = "reverse_reverse"
    /\ NumSamples(signal) = 2
    /\ signal.ch[1][1] # signal.ch[1][2]
    /\ out.kind = "ok"
    /\ out.buf = signal

\* C3: on a buffer whose peak is non-zero, normalize multiplies every sample
\* by target_peak/peak, and the largest absolute sample of the result over
\* all channels is target_peak.
C3_NormalizeReachesTarget ==
    (op = "normalize" /\ ~IsSilent(signal)) =>
        /\ out.kind = "ok"
        /\ NumChannels(out.buf) = NumChannels(signal)
        /\ \A c \in 1..NumChannels(signal) :
              /\ Len(out.buf.ch[c]) = Len(signal.ch[c])
              /\ \A i \in 1..Len(signal.ch[c]) :
                    \* out = in * target_peak / peak
                    out.buf.ch[c][i] * args.target_peak[2] * PeakOf(signal) * signal.den
                      = signal.ch[c][i] * args.target_peak[1] * out.buf.den
        /\ \E x \in AllSamples(out.buf) :
              Abs(x) * args.target_peak[2] = args.target_peak[1] * out.buf.den
        /\ \A x \in AllSamples(out.buf) :
              Abs(x) * args.target_peak[2] <= args.target_peak[1] * out.buf.den

C3_Witness ==
    /\ op = "normalize"
    /\ NumChannels(signal) = 2
    /\ signal.ch[1] = <<0, 1>>
    /\ signal.ch[2] = <<-2, 1>>
    /\ args.target_peak = <<19, 20>>
    /\ out.kind = "ok"
    /\ out.buf.ch[2][1] * 20 = -19 * out.buf.den

\* C4: on a buffer whose samples are all zero, normalize returns a buffer
\* equal to its input and raises nothing.
C4_SilentUnchanged ==
    (op = "normalize" /\ IsSilent(signal)) => (out.kind = "ok" /\ out.buf = signal)

\* the trim call of the current state, as the rationals of the claims
TrimStart == <<args.start_time, TimeDen>>
TrimDuration == <<NumSamples(signal), sr>>
TrimEnd == IF args.end_time = None THEN TrimDuration ELSE <<args.end_time[1], TimeDen>>
TrimRangeBad ==
    \/ args.start_time < 0
    \/ RatLess(TrimDuration, TrimEnd)
    \/ ~RatLess(TrimStart, TrimEnd)

RangeMessages == {MsgStartNegative, MsgEndExceeds, MsgStartNotLess}
InvalidRange(r) == r.kind = "raise" /\ r.exc = "ValueError" /\ r.msg \in RangeMessages
\* any error that is not one of the range errors counts as EmptySignal
EmptySignal(r) == r.kind = "raise" /\ r.msg \notin RangeMessages

\* round to nearest (ties to even, Python's round) of num/den >= 0
RoundNearest(num, den) ==
    LET q == num \div den
        r2 == 2 * (num % den)
    IN IF r2 < den THEN q
       ELSE IF r2 > den THEN q + 1
       ELSE IF q % 2 = 0 THEN q ELSE q + 1

Floor(num, den) == num \div den

\* C5: trim raises a range error exactly when start_time < 0, or
\* end_time > duration, or start_time >= end_time, and returns a buffer for
\* every non-empty input with 0 <= start_time < end_time <= duration.
C5_TrimRangeChecked ==
    op = "trim" =>
        /\ TrimRangeBad => InvalidRange(out)
        /\ (NumSamples(signal) >= 1 /\ ~TrimRangeBad) => out.kind = "ok"

C5_Witness ==
    /\ op = "trim"
    /\ NumSamples(signal) = 2
    /\ args.start_time = 2
    /\ args.end_time = Some(2)
    /\ InvalidRange(out)

\* C6 as stated: an accepted trim returns the samples with indices in
\* [round(start_time*sr), round(end_time*sr)), rounding to nearest.
C6_TrimSliceRounded ==
    (op = "trim" /\ out.kind = "ok") =>
        /\ NumChannels(out.buf) = NumChannels(signal)
        /\ \A c \in 1..NumChannels(signal) :
              out.buf.ch[c] = Slice(signal.ch[c],
                                    RoundNearest(TrimStart[1] * sr, TrimStart[2]),
                                    RoundNearest(TrimEnd[1] * sr, TrimEnd[2]))

\* C6 amended: an accepted trim returns the samples with indices in
\* [floor(start_time*sr), floor(end_time*sr)), the same two indices on every
\* channel, and keeps the channel count.
C6_TrimSliceTruncated ==
    (op = "trim" /\ out.kind = "ok") =>
        /\ NumChannels(out.buf) = NumChannels(signal)
        /\ out.buf.den = signal.den
        /\ \A c \in 1..NumChannels(signal) :
              /\ Len(out.buf.ch[c]) =
                    Floor(TrimEnd[1] * sr, TrimEnd[2]) - Floor(TrimStart[1] * sr, TrimStart[2])
              /\ \A k \in 1..Len(out.buf.ch[c]) :
                    out.buf.ch[c][k] =
                      signal.ch[c][Floor(TrimStart[1] * sr, TrimStart[2]) + k]

C6_Witness ==
    /\ op = "trim"
    /\ out.kind = "ok"
    /\ NumChannels(signal) = 2
    /\ signal.ch[1] = <<-2, 1>>
    /\ signal.ch[2] = <<0, -2>>
    /\ sr = 10
    /\ args.start_time = 2
    /\ args.end_time = Some(4)
    /\ out.buf.ch = << <<-2>>, <<0>> >>

\* C7: the per-channel sample count of an accepted trim differs from
\* round(end_time*sr) - round(start_time*sr) by at most one sample.
C7_TrimCountWithinOne ==
    (op = "trim" /\ out.kind = "ok") =>
        \A c \in 1..NumChannels(out.buf) :
            LET expected == RoundNearest(TrimEnd[1] * sr, TrimEnd[2])
                              - RoundNearest(TrimStart[1] * sr, TrimStart[2])
            IN Abs(Len(out.buf.ch[c]) - expected) <= 1

C7_Witness ==
    /\ op = "trim"
    /\ out.kind = "ok"
    /\ NumSamples(signal) = 2
    /\ sr = 10
    /\ args.start_time = 1
    /\ args.end_time = Some(4)
    /\ NumSamples(out.buf) = 1
    /\ RoundNearest(TrimEnd[1] * sr, TrimEnd[2])
          - RoundNearest(TrimStart[1] * sr, TrimStart[2]) = 2

\* C8: trim on an input with zero samples fails with EmptySignal, whatever
\* start_time and end_time are, and never with a range error.
C8_TrimEmptySignalFirst ==
    (op = "trim" /\ NumSamples(signal) = 0) => EmptySignal(out)

\* C9 as stated, on the calls that return: the buffer reverb returns has the
\* same channel count and per-channel length N + 5 * round(sr * delay_ms / 1000).
C9_ReverbLengthRounded ==
    (op = "reverb" /\ out.kind = "ok") =>
        /\ NumChannels(out.buf) = NumChannels(signal)
        /\ \A c \in 1..NumChannels(out.buf) :
              Len(out.buf.ch[c]) =
                NumSamples(signal) + 5 * RoundNearest(sr * args.delay_ms, 1000)

\* C9 amended: with L = N + 5 * floor(sr * delay_ms / 1000), reverb returns a
\* buffer with the same channel count and per-channel length L when L > 0,
\* and raises in its final normalization when L = 0.
C9_ReverbLengthTruncated ==
    op = "reverb" =>
        LET L == NumSamples(signal) + 5 * Floor(sr * args.delay_ms, 1000)
        IN IF L = 0
           THEN out.kind = "raise"
           ELSE /\ out.kind = "ok"
                /\ NumChannels(out.buf) = NumChannels(signal)
                /\ \A c \in 1..NumChannels(out.buf) : Len(out.buf.ch[c]) = L

C9_Witness ==
    /\ op = "reverb"
    /\ NumChannels(signal) = 2
    /\ NumSamples(signal) = 2
    /\ sr = 25
    /\ args.delay_ms = 70
    /\ out.kind = "ok"
    /\ Len(out.buf.ch[1]) = 7
    /\ Len(out.buf.ch[2]) = 7

\* input sample k (0-based) of a channel, 0 outside 0..N-1
InputAt(sig, k) == IF k >= 0 /\ k < Len(sig) THEN sig[k + 1] ELSE 0

\* numerator over den * decay[2]^5 of decay^i * input[n - i*delay_samples]
ReflectionTerm(sig, n, i, delay_samples, decay) ==
    Pow(decay[1], i) * Pow(decay[2], 5 - i) * InputAt(sig, n - i * delay_samples)

\* C10: before normalization, output sample n of a channel is input[n] plus
\* the sum over i = 1..5 of decay^i * input[n - i*delay_samples]; the span
\* of every reflection is the whole input, and the fifth reflection ends at
\* the last output sample.
C10_ReverbTaps ==
    op = "reverb" =>
        LET ds == DelaySamples(sr, args.delay_ms)
            decay == args.decay
        IN /\ NumChannels(output) = NumChannels(signal)
           /\ output.den = signal.den * Pow(decay[2], 5)
           /\ \A c \in 1..NumChannels(signal) :
                 LET sig == signal.ch[c]
                     N == Len(sig)
                     out_len == Len(output.ch[c])
                 IN /\ \A i \in 1..5 : Min(N, out_len - i * ds) = N
                    /\ 5 * ds + N = out_len
                    /\ \A n \in 0..(out_len - 1) :
                          output.ch[c][n + 1] =
                              InputAt(sig, n) * Pow(decay[2], 5)
                            + ReflectionTerm(sig, n, 1, ds, decay)
                            + ReflectionTerm(sig, n, 2, ds, decay)
                            + ReflectionTerm(sig, n, 3, ds, decay)
                            + ReflectionTerm(sig, n, 4, ds, decay)
                            + ReflectionTerm(sig, n, 5, ds, decay)

C10_Witness ==
    /\ op = "reverb"
    /\ signal.ch = << <<1, -2>> >>
    /\ sr = 10
    /\ args.delay_ms = 100
    /\ args.decay = <<1, 2>>
    /\ output.den = 32
    /\ output.ch = << <<32, -48, -24, -12, -6, -3, -2>> >>

\* C11: stereo_widen returns a buffer with exactly two channels, both of
\* length N + delay_samples with delay_samples = int(sr * delay_ms / 1000),
\* for every mono or stereo input.
C11_WidenShape ==
    op = "stereo_widen" =>
        /\ out.kind = "ok"
        /\ NumChannels(out.buf) = 2
        /\ \A c \in 1..2 :
              Len(out.buf.ch[c]) =
                NumSamples(signal) + Floor(sr * args.delay_ms, 1000)

\* C12 as stated, on the calls that return: for a mono input and
\* gain_diff_db > 0 the two channels stereo_widen returns differ at some index.
C12_WidenChannelsDiffer ==
    (op = "stereo_widen" /\ out.kind = "ok"
       /\ NumChannels(signal) = 1 /\ args.gain_diff_db > 0) =>
        \E i \in 1..Len(out.buf.ch[1]) : out.buf.ch[1][i] # out.buf.ch[2][i]

\* C12 amended: for a mono input with at least one non-zero sample and
\* gain_diff_db > 0, stereo_widen returns a buffer whose two channels differ
\* at some index.
C12_WidenChannelsDifferNonSilent ==
    (op = "stereo_widen" /\ NumChannels(signal) = 1
       /\ args.gain_diff_db > 0 /\ ~IsSilent(signal)) =>
        /\ out.kind = "ok"
        /\ NumChannels(out.buf) = 2
        /\ \E i \in 1..Len(out.buf.ch[1]) : out.buf.ch[1][i] # out.buf.ch[2][i]

C12_Witness ==
    /\ op = "stereo_widen"
    /\ signal.ch = << <<1, -2>> >>
    /\ sr = 1000
    /\ args.delay_ms = 5
    /\ args.gain_diff_db = 30
    /\ out.kind = "ok"
    /\ Len(out.buf.ch[1]) = 7
    /\ out.buf.ch[1][1] # out.buf.ch[2][1]

\* C13: eight_d_audio returns a buffer with exactly two channels, each of
\* length N, for every mono or stereo input of per-channel length N.
C13_EightDShape ==
    op = "eight_d_audio" =>
        /\ out.kind = "ok"
        /\ NumChannels(out.buf) = 2
        /\ \A c \in 1..2 : Len(out.buf.ch[c]) = NumSamples(signal)

\* C14: with crossfeed c > 0 and panned values L0, R0 of a sample, the new
\* left is L1 = L0*(1-c) + R0*c and the new right is R1 = R0*(1-c) + L1*c,
\* from the updated left; with c = 0 both channels are left as panned.
C14_CrossfeedSequential ==
    op = "eight_d_audio" =>
        LET c == args.crossfeed
            Dp == locals.den
            Do == output.den
        IN /\ Len(output.ch[1]) = Len(locals.left_out)
           /\ Len(output.ch[2]) = Len(locals.right_out)
           /\ \A n \in 1..Len(locals.left_out) :
                 LET L0 == locals.left_out[n]
                     R0 == locals.right_out[n]
                     L1 == output.ch[1][n]
                     R1 == output.ch[2][n]
                 IN IF c > 0
                    THEN /\ L1 * 10 * Dp = (L0 * (10 - c) + R0 * c) * Do
                         /\ R1 * 10 * Dp = R0 * (10 - c) * Do + L1 * c * Dp
                    ELSE /\ L1 * Dp = L0 * Do
                         /\ R1 * Dp = R0 * Do

C14_Witness ==
    /\ op = "eight_d_audio"
    /\ args.crossfeed = 3
    /\ NumSamples(signal) = 2
    /\ LET L0 == locals.left_out[2]
           R0 == locals.right_out[2]
       IN /\ L0 # R0
          /\ output.ch[1][2] * 10 * locals.den # L0 * 10 * output.den
          /\ output.ch[2][2] * 10 * locals.den
                # (R0 * (10 - 3) + L0 * 3) * output.den

\* C15: pitch_shift returns a buffer with the channel count and the
\* per-channel sample count of its input, for every mono or stereo buffer
\* and every semitones value in [-12, 12].
C15_PitchShiftShape ==
    op = "pitch_shift" =>
        /\ out.kind = "ok"
        /\ NumChannels(out.buf) = NumChannels(signal)
        /\ \A c \in 1..NumChannels(signal) :
              Len(out.buf.ch[c]) = Len(signal.ch[c])

\* the seven bands of the equalizer, in order, as the claims name them
EqBandNames == <<"sub_bass", "bass", "low_mid", "mid", "high_mid", "presence",
                 "brilliance">>
EqCentreHz(name) ==
    CASE name = "sub_bass" -> 60 [] name = "bass" -> 170 [] name = "low_mid" -> 500
      [] name = "mid" -> 1000 [] name = "high_mid" -> 3000
      [] name = "presence" -> 6000 [] name = "brilliance" -> 12000
\* the gain requested for a band, in thousandths of a dB, 0 when absent
EqRequested(name) ==
    IF name \in DOMAIN args.band_gains_db THEN args.band_gains_db[name] ELSE 0
\* |gain| >= 0.01 dB and centre frequency < sr/2
EqActive(name) == Abs(EqRequested(name)) >= 10 /\ 2 * EqCentreHz(name) < sr

\* C16: when no band is active (every gain absent or 0, or every non-zero
\* gain on a skipped band) equalize returns a buffer equal sample for sample
\* to its input, with no normalization.
C16_EqBypassUnchanged ==
    (op = "equalizer" /\ \A i \in 1..7 : ~EqActive(EqBandNames[i])) =>
        /\ out.kind = "ok"
        /\ out.buf = signal

C16_Witness ==
    /\ op = "equalizer"
    /\ sr = 1000
    /\ signal.ch = << <<1, 0>>, <<0, 1>> >>
    /\ args.band_gains_db = [b \in {"mid", "presence"} |-> IF b = "mid" THEN 6000 ELSE -4000]
    /\ out.kind = "ok"
    /\ out.buf = signal

\* C17: the filter sections equalize builds are exactly the bands with
\* |gain| >= 0.01 dB and centre frequency < sr/2, in the order sub_bass, bass,
\* low_mid, mid, high_mid, presence, brilliance; no section is built for a
\* band at or above Nyquist, and a request whose bands are all skipped
\* returns without an error.
C17_EqSectionsExact ==
    op = "equalizer" =>
        LET IsActive(name) == EqActive(name)
            expected == SelectSeq(EqBandNames, IsActive)
            built == locals.sos_sections
        IN /\ Len(built) = Len(expected)
           /\ \A i \in 1..Len(built) :
                 /\ built[i].band = expected[i]
                 /\ built[i].freq = EqCentreHz(expected[i])
                 /\ built[i].gain_db = EqRequested(expected[i])
                 /\ 2 * built[i].freq < sr
           /\ (expected = <<>> => out.kind = "ok")

C17_Witness ==
    /\ op = "equalizer"
    /\ sr = 1000
    /\ NumSamples(signal) = 2
    /\ "low_mid" \in DOMAIN args.band_gains_db
    /\ "brilliance" \in DOMAIN args.band_gains_db
    /\ Len(locals.sos_sections) = 2
    /\ locals.sos_sections[1].band = "sub_bass"
    /\ locals.sos_sections[2].band = "bass"
    /\ out.kind = "ok"

\* the seven effect identifiers
SevenEffects ==
    {"reverse", "pitch_shift", "reverb", "stereo_widen", "trim",
     "eight_d_audio", "equalizer"}

\* C18: an effect identifier that is not one of the seven is rejected with
\* the unknown-effect error, and no effect function is invoked for it.
C18_UnknownEffectRejected ==
    (op = "apply_effect" /\ args.effect \notin SevenEffects) =>
        /\ out.kind = "raise"
        /\ out.exc = "ValueError"
        /\ out.msg = "Unknown effect: " \o args.effect
        /\ locals.invoked = "none"

C18_Witness ==
    /\ op = "apply_effect"
    /\ args.effect = "echo"
    /\ NumSamples(signal) = 2
    /\ out.kind = "raise"
    /\ out.msg = "Unknown effect: echo"
    /\ locals.invoked = "none"

\* the parameter fields of an effect
EffectFields(effect) ==
    CASE effect = "pitch_shift" -> {"semitones"}
      [] effect = "reverb" -> {"decay", "delay_ms"}
      [] effect = "stereo_widen" -> {"delay_ms", "gain_diff_db"}
      [] effect = "trim" -> {"start_time", "end_time"}
      [] effect = "eight_d_audio" -> {"pan_speed_hz", "intensity", "crossfeed"}
      [] effect = "equalizer" -> { EqBandNames[i] : i \in 1..7 }
      [] OTHER -> {}

\* the bound of a field, in the unit of the field: semitones [-12,12], decay
\* [0.1,0.9], reverb delay_ms [50,300], widen delay_ms [5,20], gain_diff_db
\* [0,6], pan_speed_hz [0.05,1.0], intensity [0.1,1.0], crossfeed [0,0.6],
\* band gain [-12,12], start_time >= 0, end_time > 0
InBound(effect, name, x) ==
    CASE name = "semitones" -> -12 <= x /\ x <= 12
      [] name = "decay" -> 1 <= x /\ x <= 9
      [] name = "delay_ms" /\ effect = "reverb" -> 50 <= x /\ x <= 300
      [] name = "delay_ms" /\ effect = "stereo_widen" -> 5 <= x /\ x <= 20
      [] name = "gain_diff_db" -> 0 <= x /\ x <= 60
      [] name = "pan_speed_hz" -> 5 <= x /\ x <= 100
      [] name = "intensity" -> 1 <= x /\ x <= 10
      [] name = "crossfeed" -> 0 <= x /\ x <= 6
      [] name = "start_time" -> x >= 0
      [] name = "end_time" -> x > 0
      [] OTHER -> -12000 <= x /\ x <= 12000

\* the supplied fields of the request that are malformed or out of bounds
Offending ==
    { n \in DOMAIN args.params \cap EffectFields(args.effect) :
        \/ args.params[n].kind # "number"
        \/ ~InBound(args.effect, n, args.params[n].v) }

\* C19: when a supplied field of an effect that takes parameters is out of
\* its bound or malformed, the call fails with the validation error, the
\* error names that field, and the effect function is not invoked.
C19_InvalidFieldRejected ==
    (op = "apply_effect" /\ EffectFields(args.effect) # {} /\ Offending # {}) =>
        /\ out.kind = "raise"
        /\ out.exc = "ValidationError"
        /\ Offending \subseteq out.fields
        /\ locals.invoked = "none"

C19_Witness ==
    /\ op = "apply_effect"
    /\ args.effect = "eight_d_audio"
    /\ DOMAIN args.params = {"pan_speed_hz", "intensity", "crossfeed"}
    /\ args.params["pan_speed_hz"] = Num(101)
    /\ Offending = {"pan_speed_hz"}
    /\ out.kind = "raise"
    /\ out.fields = {"pan_speed_hz"}
    /\ locals.invoked = "none"

\* the documented default of a field, in the unit of the field; the default
\* of end_time is the full duration, in ticks
DocumentedDefault(effect, name) ==
    CASE name = "semitones" -> <<0, 1>>
      [] name = "decay" -> <<5, 1>>
      [] name = "delay_ms" /\ effect = "reverb" -> <<100, 1>>
      [] name = "delay_ms" /\ effect = "stereo_widen" -> <<10, 1>>
      [] name = "gain_diff_db" -> <<15, 1>>
      [] name = "pan_speed_hz" -> <<15, 1>>
      [] name = "intensity" -> <<8, 1>>
      [] name = "crossfeed" -> <<3, 1>>
      [] name = "start_time" -> <<0, 1>>
      [] name = "end_time" -> <<NumSamples(signal) * TimeDen, sr>>
      [] OTHER -> <<0, 1>>

\* C20: a request for one of the seven effects that leaves out parameter
\* fields (and supplies no invalid one) is accepted, and the effect function
\* is invoked with the documented default for every field left out.
C20_OmittedTakeDefaults ==
    (op = "apply_effect" /\ args.effect \in SevenEffects /\ Offending = {}) =>
        /\ locals.invoked # "none"
        /\ \A n \in EffectFields(args.effect) \ DOMAIN args.params :
             LET d == DocumentedDefault(args.effect, n)
             IN locals.validated.v[n] * d[2] = d[1]

\* the largest absolute sample of the buffer is exactly 0.95
PeakIs095(b) ==
    /\ \E x \in AllSamples(b) : Abs(x) * 20 = 19 * b.den
    /\ \A x \in AllSamples(b) : Abs(x) * 20 <= 19 * b.den

\* the call was one of the seven effect functions, the equalizer on its
\* filtering path
EffectReturned(names) ==
    /\ op \in names
    /\ out.kind = "ok"
    /\ op = "equalizer" => locals.sos_sections # <<>>

\* C21 as stated: the buffer each of the seven effect functions returns is
\* silent or has its largest absolute sample equal to 0.95.
C21_EveryEffectNormalized ==
    EffectReturned({"reverse", "trim", "reverb", "stereo_widen",
                    "eight_d_audio", "pitch_shift", "equalizer"}) =>
        IsSilent(out.buf) \/ PeakIs095(out.buf)

\* C21 amended: the buffer returned by reverb, stereo_widen, eight_d_audio,
\* pitch_shift or the equalizer on its filtering path is silent or has its
\* largest absolute sample equal to 0.95; reverse and trim return samples of
\* the input unscaled.
C21_NormalizingEffectsNormalized ==
    /\ EffectReturned({"reverb", "stereo_widen", "eight_d_audio", "pitch_shift",
                       "equalizer"}) =>
          IsSilent(out.buf) \/ PeakIs095(out.buf)
    /\ EffectReturned({"reverse", "trim"}) =>
          /\ out.buf.den = signal.den
          /\ AllSamples(out.buf) \subseteq AllSamples(signal)

C21_Witness ==
    /\ op = "pitch_shift"
    /\ NumChannels(signal) = 2
    /\ NumSamples(signal) = 2
    /\ output.ch = << <<1, 0>>, <<1, 1>> >>
    /\ out.kind = "ok"
    /\ PeakIs095(out.buf)

\* C24: trim reports the first violated range check in the order
\* start_time < 0, end_time > duration, start_time >= end_time.
C24_TrimErrorOrder ==
    op = "trim" =>
        /\ args.start_time < 0 => out = Raise("ValueError", MsgStartNegative)
        /\ (args.start_time >= 0 /\ RatLess(TrimDuration, TrimEnd)) =>
              out = Raise("ValueError", MsgEndExceeds)
        /\ (args.start_time >= 0 /\ ~RatLess(TrimDuration, TrimEnd)
              /\ ~RatLess(TrimStart, TrimEnd)) =>
              out = Raise("ValueError", MsgStartNotLess)

C24_Witness ==
    /\ op = "trim"
    /\ NumSamples(signal) = 2
    /\ sr = 25
    /\ args.start_time = 5
    /\ args.end_time = Some(4)
    /\ out = Raise("ValueError", MsgEndExceeds)

\* C25: an accepted trim has 0 <= start_sample <= end_sample <= N, returns
\* end_sample - start_sample samples on every channel, and at least one.
C25_TrimIndicesNonEmpty ==
    (op = "trim" /\ out.kind = "ok") =>
        LET start_sample == Floor(TrimStart[1] * sr, TrimStart[2])
            end_sample == Floor(TrimEnd[1] * sr, TrimEnd[2])
        IN /\ 0 <= start_sample
           /\ start_sample <= end_sample
           /\ end_sample <= NumSamples(signal)
           /\ \A c \in 1..NumChannels(out.buf) :
                 /\ Len(out.buf.ch[c]) = end_sample - start_sample
                 /\ Len(out.buf.ch[c]) >= 1

\* C22: no call of normalize or of one of the seven effects writes into the
\* storage of the caller's array, whether the call returns or raises; every
\* write of the call goes to an array the call allocated itself.
C22_InputNotWritten ==
    op # "none" =>
        /\ "input" \notin locals.written
        /\ locals.raised <=> out.kind = "raise"
        /\ locals.returned # "none" <=> out.kind = "ok"

C22_Witness ==
    /\ op = "stereo_widen"
    /\ NumChannels(signal) = 2
    /\ NumSamples(signal) = 2
    /\ locals.objects["right"] = "input"
    /\ locals.written = {"right_delayed", "side"}
    /\ out.kind = "ok"

\* C23: the array every one of the eight operations returns has a storage of
\* its own, never the storage of the caller's array.
C23_ReturnsFreshStorage ==
    (op # "none" /\ locals.returned # "none") => locals.returned # "input"

\* the status the error responses are documented with
DocumentedStatus(error) ==
    IF error.exc = "FileNotFoundError" THEN 404
    ELSE IF error.exc = "ValidationError"
             \/ error.msg \in {MsgStartNegative, MsgEndExceeds, MsgStartNotLess}
    THEN 422
    ELSE 500

\* C26: a /process request calls process_audio at most once, and a failed
\* call is answered with exactly one error response: 404 for a missing
\* upload, 422 for a parameter-validation or trim-range error, 500 for any
\* other exception.
C26_FailureReportedOnce ==
    /\ calls <= 1
    /\ Len(responses) <= 1
    /\ (pc = "done" /\ "error" \in DOMAIN locals) =>
          responses = <<DocumentedStatus(locals.error)>>

\* the steps of process_audio up to the final normalization
BeforeSave == {"locate", "convert", "load", "effect", "normalize"}

\* C27: while process_audio is at a step up to the final normalization, and
\* so when it fails there, no processed id is generated, nothing is written
\* to the processed directory and the uploaded source, while it exists, keeps
\* its contents; an entry is added to the processed directory only by a call
\* whose effect and final normalization have succeeded.
C27_WritesOnlyAfterSuccess ==
    [][ /\ pc \in BeforeSave =>
             /\ issued' = issued
             /\ "proc_id" \notin DOMAIN locals'
             /\ InDirectory(PROCESSED_DIR)' \subseteq InDirectory(PROCESSED_DIR)
             /\ LET source_mp3 == uploaded_path(args.file_id, ".mp3")
                IN (Exists(source_mp3) /\ source_mp3 \in DOMAIN files') =>
                      files'[source_mp3] = files[source_mp3]
        /\ ~(InDirectory(PROCESSED_DIR)' \subseteq InDirectory(PROCESSED_DIR)) =>
             /\ pc \in {"save", "to_mp3"}
             /\ out.kind = "ok"
             /\ AllSamples(out.buf) # {}
             /\ IsSilent(out.buf) \/ PeakIs095(out.buf)
      ]_vars

C27_Witness ==
    /\ pc = "done"
    /\ "error" \in DOMAIN locals
    /\ locals.at = "effect"
    /\ locals.error = Raise("ValueError", MsgEndExceeds)
    /\ responses = <<422>>
    /\ issued = 1
    /\ InDirectory(PROCESSED_DIR) = {}
    /\ Exists(uploaded_path(FileId(1), ".mp3"))

\* the file a successful upload wrote under file_id is still there
UploadPresent(file_id) ==
    \E ext \in ALLOWED_EXTENSIONS :
        /\ Exists(uploaded_path(file_id, ext))
        /\ files[uploaded_path(file_id, ext)].by = "upload"

\* C28: a /process request for a file_id that a successful upload returned,
\* whatever the allowed extension of the upload, locates the uploaded file
\* while no cleanup has removed it: it is never answered 404.
C28_UploadedIdLocated ==
    [][ (pc = "locate" /\ UploadPresent(args.file_id)) =>
            ~(pc' = "done" /\ responses' = <<404>>) ]_vars

\* the entries a step removes
Removed == DOMAIN files \ DOMAIN files'

\* C29: an entry disappears only in a scan of cleanup_old_files, and then it
\* is a regular file of one of the three directories whose modification time
\* lies more than FILE_TTL_MINUTES before the moment of the call; the step
\* for one listed path, whether it deletes, fails or skips, leaves the rest
\* of the listing to be scanned; deleted starts at 0 and grows by exactly
\* the files removed, so the number returned is the number deleted; and a
\* call that raised leaves the periodic task asleep, to be woken again.
C29_CleanupDeletesOnlyStale ==
    [][ /\ \A path \in Removed :
             /\ cleaner.state = "scanning"
             /\ path[1] \in {UPLOAD_DIR, PROCESSED_DIR, VISUALIZATION_DIR}
             /\ files[path].kind = "file"
             /\ files[path].mtime + FILE_TTL_MINUTES < cleaner.called
        /\ (cleaner.state = "due" /\ cleaner'.state = "scanning") =>
             cleaner'.deleted = 0
        /\ (cleaner.state = "scanning" /\ cleaner'.state = "scanning") =>
             cleaner'.deleted = cleaner.deleted + Cardinality(Removed)
        /\ (cleaner.state = "scanning" /\ cleaner.todo # <<>> /\ cleaner' # cleaner) =>
             /\ cleaner'.state = "scanning"
             /\ cleaner'.todo = Tail(cleaner.todo)
             /\ cleaner'.dirs = cleaner.dirs
        /\ (cleaner'.raised /\ ~cleaner.raised) => cleaner'.state = "sleeping"
        /\ (cleaner.raised /\ now' # now) => cleaner'.state = "due"
      ]_vars

\* in one scan of the upload directory a stale file was deleted and the
\* unlink of another failed, while a file of the last half hour is kept
C29_Witness ==
    /\ cleaner.state = "scanning"
    /\ Len(cleaner.dirs) = 2
    /\ cleaner.todo = <<>>
    /\ cleaner.deleted = 1
    /\ ~Exists(uploaded_path(FileId(1), ".mp3"))
    /\ Exists(wav_path_for(FileId(1), UPLOAD_DIR))
    /\ IsStale(files[wav_path_for(FileId(1), UPLOAD_DIR)], cleaner.cutoff)
    /\ \E path \in InDirectory(UPLOAD_DIR) :
          /\ files[path].kind = "file"
          /\ files[path].mtime + FILE_TTL_MINUTES = cleaner.called

\* C30: once process_audio has found its source, the source MP3 is there
\* when the call converts it, unless the working WAV is, and the working WAV
\* is there when the call loads it, whatever cleanup_old_files does in
\* between.
C30_LocatedSourceStays ==
    /\ pc = "convert" =>
          \/ Exists(uploaded_path(args.file_id, ".mp3"))
          \/ Exists(wav_path_for(args.file_id, UPLOAD_DIR))
    /\ pc = "load" => Exists(wav_path_for(args.file_id, UPLOAD_DIR))

====
